---- MODULE Spec2Model ----
(***************************************************************************)
(* Oracle payload subsystem of stellAIverse-backend:                       *)
(*   NonceManagementService  (src/src/oracle/services/nonce-management...) *)
(*   OracleService           (src/src/oracle/services/oracle.service.ts)   *)
(*   SubmitterService        (src/src/oracle/services/submitter.service.ts)*)
(*                                                                         *)
(* The store is PostgreSQL through TypeORM.  Every `await` of a handler is *)
(* a point where other requests, other process instances and background   *)
(* monitors may run, so a handler is a sequence of atomic steps, one per   *)
(* store or ledger round trip.  repository.save(entity) of a loaded entity *)
(* writes every column in which the in-memory entity differs from the row, *)
(* i.e. it overwrites the row with the in-memory copy.                     *)
(*                                                                         *)
(* Time is in seconds.                                                     *)
(***************************************************************************)
EXTENDS Integers, Sequences, FiniteSets, TLC

\* ------------------------------------------------------------------ bounds
\* getAndIncrementNonce is not started once the stored nonce reached this.
MaxNonce == 2
\* createPayload is not started once this many Payload Records exist.
MaxPayloads == 2
\* The ledger accepts no transaction once it holds this many.
MaxTx == 2

\* ------------------------------------------------------- program constants
\* nonce-management.service.ts:22  CACHE_TTL = 60000 ms
CACHE_TTL == 60
\* oracle.service.ts:26  defaultExpirationMinutes = 30
defaultExpirationMinutes == 30
\* submitter.service.ts:77  SUBMITTER_MAX_RETRIES default '3'
maxRetries == 3
\* nonce-management.service.ts:252  daysInactive default 90
defaultDaysInactive == 90

SecondsPerMinute == 60
SecondsPerDay == 86400

\* ------------------------------------------------------------------ values
\* Requests that may be in flight at once.
Procs == {1, 2}
NoProc == 0
\* Process instances of the backend; each has its own nonceCache.
Instances == {"i1", "i2"}

\* Addresses as callers spell them, and their normal forms.
AddressInputs == {"0xAb", "0xab", "0xCd"}
\* ethers getAddress: the checksummed spelling of an address.
getAddress(a) == IF a \in {"0xAb", "0xab"} THEN "0xAb" ELSE "0xCd"
\* String.prototype.toLowerCase on an address.
toLowerCase(a) ==
  IF a \in {"0xAb", "0xab"} THEN "0xab"
  ELSE IF a \in {"0xCd", "0xcd"} THEN "0xcd" ELSE a
Signers == {toLowerCase(a) : a \in AddressInputs}

Null == -1

\* PayloadStatus (signed-payload.entity.ts:10-15)
PENDING == "pending"
SUBMITTED == "submitted"
CONFIRMED == "confirmed"
FAILED == "failed"

\* PayloadType values used as inputs (signed-payload.entity.ts:17-22)
PayloadTypes == {"price_feed"}

\* Request bodies: a JSON object is its key/value pairs in insertion order.
Bodies == { <<<<"a", 1>>, <<"b", 2>>>>, <<<<"b", 2>>, <<"a", 1>>>>, <<<<"a", 1>>, <<"b", 3>>>> }

\* Instants at which steps are observed.
NonceInstants == {0, CACHE_TTL}

VARIABLES
  now,         \* the clock (seconds)
  nonceRows,   \* table submission_nonces, by address (unique)
  rowLock,     \* holder of the row lock on a submission_nonces row
  nonceCache,  \* NonceManagementService.nonceCache, one per instance
  payloads,    \* table signed_payloads; a record's id is its index
  pc,          \* position of each request in its handler
  loc,         \* locals of each request
  returned,    \* history: <<signer, nonce>> returned by getAndIncrementNonce
  returnedTwice, \* history: pairs returned by more than one call
  thrown,      \* history: signers for which getAndIncrementNonce threw
  ledger,      \* transactions the ledger accepted; a hash is an index
  monitors,    \* monitorTransaction tasks, by transaction
  retried      \* history: records for which a retrySubmission was accepted

chainVars == <<ledger, monitors, retried>>

vars == <<now, nonceRows, rowLock, nonceCache, payloads, pc, loc,
          returned, returnedTwice, thrown, chainVars>>

\* ------------------------------------------------------------------ rows
\* SubmissionNonce (submission-nonce.entity.ts:14-44); address is the key.
NoRow == [exists |-> FALSE, nonce |-> 0, lastUsedAt |-> Null]
NonceRow(n, t) == [exists |-> TRUE, nonce |-> n, lastUsedAt |-> t]

NoEntry == [present |-> FALSE, nonce |-> 0, lastFetch |-> 0]
CacheEntry(n, t) == [present |-> TRUE, nonce |-> n, lastFetch |-> t]

\* JSON.stringify of a body: the pairs in insertion order, flattened.
RECURSIVE JSONstringify(_)
JSONstringify(body) ==
  IF body = <<>> THEN <<>>
  ELSE <<Head(body)[1], Head(body)[2]>> \o JSONstringify(Tail(body))

\* keccak256 is taken as collision free: the digest names its preimage.
keccak256(bytes) == <<"keccak256", bytes>>

\* The empty signature '' of an unsigned record (oracle.service.ts:77).
NoSignature == <<>>

\* PayloadSigningService.hashPayload (oracle.service.ts:462-465)
hashPayload(body) == keccak256(JSONstringify(body))

\* PayloadSigningService.computeStructuredDataHash (oracle.service.ts:618-637)
computeStructuredDataHash(payloadType, payloadHash, nonce, expiresAt, data) ==
  payloadHash

\* SignedPayload as created by createPayload (oracle.service.ts:70-82)
NewPayload(ptype, signer, nonce, body, t) ==
  LET expiresAt == t + defaultExpirationMinutes * SecondsPerMinute
      payloadHash == hashPayload(body)
  IN [ payloadType |-> ptype,
       signerAddress |-> signer,
       nonce |-> nonce,
       payload |-> body,
       payloadHash |-> payloadHash,
       structuredDataHash |->
         computeStructuredDataHash(ptype, payloadHash, nonce, expiresAt, body),
       signature |-> NoSignature,
       expiresAt |-> expiresAt,
       status |-> PENDING,
       transactionHash |-> Null,
       blockNumber |-> Null,
       submissionAttempts |-> 0,
       errorMessage |-> "",
       submittedAt |-> Null,
       confirmedAt |-> Null ]

NoPayload == [ payloadType |-> "", signerAddress |-> "", nonce |-> 0,
               payload |-> <<>>, payloadHash |-> <<>>,
               structuredDataHash |-> <<>>, signature |-> NoSignature,
               expiresAt |-> 0, status |-> "", transactionHash |-> Null,
               blockNumber |-> Null, submissionAttempts |-> 0,
               errorMessage |-> "", submittedAt |-> Null, confirmedAt |-> Null ]

\* Locals of a request that is not running.
IdleLoc == [ op |-> "", inst |-> "", signer |-> "", nonce |-> 0,
             isNew |-> FALSE, lastUsedAt |-> Null, body |-> <<>>,
             ptype |-> "", id |-> 0, copy |-> NoPayload, batch |-> {},
             result |-> "" ]

Finish(p) ==
  /\ pc' = [pc EXCEPT ![p] = "idle"]
  /\ loc' = [loc EXCEPT ![p] = IdleLoc]

\* ----------------------------------------------------------------- Init
Init ==
  /\ now = 0
  /\ nonceRows = [s \in Signers |-> NoRow]
  /\ rowLock = [s \in Signers |-> NoProc]
  /\ nonceCache = [i \in Instances |-> [s \in Signers |-> NoEntry]]
  /\ payloads = <<>>
  /\ pc = [p \in Procs |-> "idle"]
  /\ loc = [p \in Procs |-> IdleLoc]
  /\ returned = {}
  /\ returnedTwice = {}
  /\ thrown = {}
  /\ ledger = <<>>
  /\ monitors = <<>>
  /\ retried = {}

\* ---------------------------------------------------- NonceManagementService

\* Mutant: the post-increment value is returned.
ReturnedNonce_PostIncrement(nonce) == nonce + 1

\* The value getAndIncrementNonce returns for an entity read with `nonce`
\* (nonce-management.service.ts:96,105: `return currentNonce`).
ReturnedNonce(nonce) == nonce
\* Mutant: a counter that wraps around.
NextNonce_Wraps(nonce) == (nonce + 1) % 2

\* Mutant: a save that leaves the nonce as read.
NextNonce_Same(nonce) == nonce

\* The value it persists (nonce-management.service.ts:97,100).
NextNonce(nonce) == nonce + 1

\* Mutant: findOne without the pessimistic_write lock never waits.
MustWaitForLock_NoLock(s) == FALSE

\* Whether findOne with lock must wait (row exists and is locked).
MustWaitForLock(s) == nonceRows[s].exists /\ rowLock[s] # NoProc

\* getAndIncrementNonce, lines 77-94: begin transaction, findOne with
\* pessimistic_write lock (SELECT ... FOR UPDATE locks only an existing row).
IncrFind(p, s, inst, op, ptype, body) ==
  /\ ~MustWaitForLock(s)
  /\ nonceRows[s].nonce < MaxNonce
  /\ rowLock' = IF nonceRows[s].exists THEN [rowLock EXCEPT ![s] = p] ELSE rowLock
  /\ pc' = [pc EXCEPT ![p] = "incr_found"]
  /\ loc' = [loc EXCEPT ![p] = [IdleLoc EXCEPT !.op = op, !.inst = inst,
                                   !.signer = s,
                                   !.nonce = nonceRows[s].nonce,
                                   !.isNew = ~nonceRows[s].exists,
                                   !.ptype = ptype, !.body = body]]

getAndIncrementNonce_Find(p, address, inst) ==
  /\ pc[p] = "idle"
  /\ IncrFind(p, toLowerCase(getAddress(address)), inst,
              "getAndIncrementNonce", "", <<>>)
  /\ UNCHANGED <<now, nonceRows, nonceCache, payloads, chainVars, returned, returnedTwice,
                 thrown>>

\* getAndIncrementNonce, lines 96-106: save and commit.  A new entity is
\* INSERTed and the unique index on address rejects it when a row was
\* committed meanwhile: the transaction rolls back and the call throws.
\* A loaded entity is UPDATEd under the row lock, released at commit.
getAndIncrementNonce_Save(p) ==
  /\ pc[p] = "incr_found"
  /\ LET s == loc[p].signer IN
       IF loc[p].isNew /\ nonceRows[s].exists
       THEN /\ Finish(p)
            /\ thrown' = thrown \cup {s}
            /\ UNCHANGED <<nonceRows, rowLock>>
       ELSE /\ nonceRows' = [nonceRows EXCEPT
                               ![s] = NonceRow(NextNonce(loc[p].nonce), now)]
            /\ rowLock' = IF loc[p].isNew THEN rowLock
                          ELSE [rowLock EXCEPT ![s] = NoProc]
            /\ pc' = [pc EXCEPT ![p] = "incr_committed"]
            /\ UNCHANGED <<loc, thrown>>
  /\ UNCHANGED <<now, nonceCache, payloads, chainVars, returned, returnedTwice>>

\* getAndIncrementNonce, lines 109-116: invalidate this instance's cache
\* entry and return the pre-increment value.
getAndIncrementNonce_Return(p) ==
  /\ pc[p] = "incr_committed"
  /\ LET s == loc[p].signer
         result == ReturnedNonce(loc[p].nonce)
     IN /\ nonceCache' = [nonceCache EXCEPT ![loc[p].inst][s] = NoEntry]
        /\ returnedTwice' = IF <<s, result>> \in returned
                            THEN returnedTwice \cup {<<s, result>>}
                            ELSE returnedTwice
        /\ returned' = returned \cup {<<s, result>>}
        /\ IF loc[p].op = "createPayload"
           THEN /\ pc' = [pc EXCEPT ![p] = "create_save"]
                /\ loc' = [loc EXCEPT ![p].nonce = result,
                                      ![p].copy = NewPayload(loc[p].ptype, s,
                                                    result, loc[p].body, now)]
           ELSE Finish(p)
  /\ UNCHANGED <<now, nonceRows, rowLock, payloads, chainVars, thrown>>

\* getCurrentNonce, lines 36-48: a fresh cache entry answers; otherwise
\* findOne (no lock).
ReadNonce(p, address, inst, op) ==
  /\ pc[p] = "idle"
  /\ LET s == toLowerCase(getAddress(address))
         cached == nonceCache[inst][s]
     IN   IF cached.present /\ now - cached.lastFetch < CACHE_TTL
          THEN /\ pc' = [pc EXCEPT ![p] = "get_done"]
               /\ loc' = [loc EXCEPT ![p] = [IdleLoc EXCEPT
                            !.op = op, !.inst = inst,
                            !.signer = s, !.nonce = cached.nonce]]
          ELSE /\ pc' = [pc EXCEPT ![p] = IF nonceRows[s].exists
                                           THEN "get_found" ELSE "get_create"]
               /\ loc' = [loc EXCEPT ![p] = [IdleLoc EXCEPT
                            !.op = op, !.inst = inst,
                            !.signer = s, !.nonce = nonceRows[s].nonce,
                            !.isNew = ~nonceRows[s].exists]]
  /\ UNCHANGED <<now, nonceRows, rowLock, nonceCache, payloads, chainVars,
                 returned, returnedTwice, thrown>>

\* A request calls getCurrentNonce.
getCurrentNonce_Read(p, address, inst) ==
  ReadNonce(p, address, inst, "getCurrentNonce")

\* validateNonce, lines 123-125: its call of getCurrentNonce.
validateNonce_Read(p, address, inst) ==
  ReadNonce(p, address, inst, "validateNonce")

\* getCurrentNonce, lines 50-58: no row was found: INSERT one with nonce 0
\* (lastUsedAt stays NULL).  The unique index rejects it when a row was
\* committed meanwhile, and the call throws.
getCurrentNonce_Create(p) ==
  /\ pc[p] = "get_create"
  /\ LET s == loc[p].signer IN
       IF nonceRows[s].exists
       THEN /\ Finish(p)
            /\ UNCHANGED nonceRows
       ELSE /\ nonceRows' = [nonceRows EXCEPT ![s] = NonceRow(0, Null)]
            /\ pc' = [pc EXCEPT ![p] = "get_found"]
            /\ UNCHANGED loc
  /\ UNCHANGED <<now, rowLock, nonceCache, payloads, chainVars, returned, returnedTwice, thrown>>

\* getCurrentNonce, lines 60-66: store what was read in the cache, return it.
getCurrentNonce_Cache(p) ==
  /\ pc[p] = "get_found"
  /\ nonceCache' = [nonceCache EXCEPT
                      ![loc[p].inst][loc[p].signer] = CacheEntry(loc[p].nonce, now)]
  /\ pc' = [pc EXCEPT ![p] = "get_done"]
  /\ UNCHANGED <<now, nonceRows, rowLock, payloads, chainVars, loc, returned, returnedTwice, thrown>>

\* The caller receives the result of getCurrentNonce.
getCurrentNonce_Return(p) ==
  /\ pc[p] = "get_done"
  /\ loc[p].op = "getCurrentNonce"
  /\ Finish(p)
  /\ UNCHANGED <<now, nonceRows, rowLock, nonceCache, payloads, chainVars,
                 returned, returnedTwice, thrown>>

\* setNonce, lines 143-156: findOne (no lock), then set the nonce on the
\* entity found or on a new one.
SetFind(p, s, nonce, inst, op) ==
  /\ pc[p] = "idle"
  /\ pc' = [pc EXCEPT ![p] = "set_found"]
  /\ loc' = [loc EXCEPT ![p] = [IdleLoc EXCEPT !.op = op, !.inst = inst,
                                   !.signer = s, !.nonce = nonce,
                                   !.isNew = ~nonceRows[s].exists,
                                   !.lastUsedAt = nonceRows[s].lastUsedAt]]
  /\ UNCHANGED <<now, nonceRows, rowLock, nonceCache, payloads, chainVars,
                 returned, returnedTwice, thrown>>

setNonce_Find(p, address, nonce, inst) ==
  SetFind(p, toLowerCase(getAddress(address)), nonce, inst, "setNonce")

\* resetNonce, lines 171-174: setNonce(address, '0').
resetNonce_Find(p, address, inst) ==
  SetFind(p, toLowerCase(getAddress(address)), 0, inst, "resetNonce")

\* setNonce, line 158: save.  A new entity is INSERTed (rejected by the
\* unique index when a row was committed meanwhile).  A loaded entity is
\* written over its row, which waits while a transaction holds the row lock;
\* when the row was deleted meanwhile save INSERTs the entity.  (A row is
\* identified by its address here.)
setNonce_Save(p) ==
  /\ pc[p] = "set_found"
  /\ LET s == loc[p].signer IN
       IF loc[p].isNew
       THEN IF nonceRows[s].exists
            THEN /\ Finish(p)
                 /\ UNCHANGED nonceRows
            ELSE /\ nonceRows' = [nonceRows EXCEPT
                                    ![s] = NonceRow(loc[p].nonce, Null)]
                 /\ pc' = [pc EXCEPT ![p] = "set_saved"]
                 /\ UNCHANGED loc
       ELSE /\ rowLock[s] = NoProc
            /\ nonceRows' = [nonceRows EXCEPT
                               ![s] = NonceRow(loc[p].nonce, loc[p].lastUsedAt)]
            /\ pc' = [pc EXCEPT ![p] = "set_saved"]
            /\ UNCHANGED loc
  /\ UNCHANGED <<now, rowLock, nonceCache, payloads, chainVars, returned, returnedTwice, thrown>>

\* setNonce, lines 160-165: invalidate this instance's cache entry.
setNonce_Invalidate(p) ==
  /\ pc[p] = "set_saved"
  /\ nonceCache' = [nonceCache EXCEPT ![loc[p].inst][loc[p].signer] = NoEntry]
  /\ Finish(p)
  /\ UNCHANGED <<now, nonceRows, rowLock, payloads, chainVars, returned, returnedTwice, thrown>>

\* Mutant: a sweep that deletes inactive rows whatever their nonce.
Deletable_AnyNonce(row, cutoff) ==
  /\ row.exists
  /\ row.lastUsedAt # Null
  /\ row.lastUsedAt < cutoff

\* cleanupOldNonces, lines 252-270: one DELETE of the rows with nonce '0'
\* and lastUsedAt < cutoff (a NULL lastUsedAt never compares less).  A row
\* locked by a getAndIncrementNonce transaction is re-evaluated after that
\* transaction commits, when its nonce is no longer '0'.
Deletable(row, cutoff) ==
  /\ row.exists
  /\ row.nonce = 0
  /\ row.lastUsedAt # Null
  /\ row.lastUsedAt < cutoff

cleanupOldNonces(p, daysInactive) ==
  /\ pc[p] = "idle"
  /\ LET cutoff == now - daysInactive * SecondsPerDay IN
       nonceRows' = [s \in Signers |->
                       IF Deletable(nonceRows[s], cutoff) /\ rowLock[s] = NoProc
                       THEN NoRow ELSE nonceRows[s]]
  /\ UNCHANGED <<now, rowLock, nonceCache, payloads, chainVars, pc, loc,
                 returned, returnedTwice, thrown>>

\* ------------------------------------------------------------ OracleService

\* createPayload, lines 46-49: allocate the nonce (getAndIncrementNonce).
createPayload_Allocate(p, signerAddress, inst, ptype, body) ==
  /\ pc[p] = "idle"
  /\ Len(payloads) < MaxPayloads
  /\ IncrFind(p, toLowerCase(getAddress(signerAddress)), inst,
              "createPayload", ptype, body)
  /\ UNCHANGED <<now, nonceRows, nonceCache, payloads, chainVars, returned, returnedTwice,
                 thrown>>

\* The unique index on payloadHash (signed-payload.entity.ts:30,66).
HashTaken(hash) == \E i \in 1..Len(payloads) : payloads[i].payloadHash = hash

\* Mutant: a store without the unique index on payloadHash.
InsertAccepted_Always(rec) == TRUE

\* Whether the store accepts the INSERT of a new Payload Record.
InsertAccepted(rec) == ~HashTaken(rec.payloadHash)

\* createPayload, lines 84-90: INSERT the record built at lines 51-82; the
\* store rejects a duplicate payloadHash and the call throws.
createPayload_Save(p) ==
  /\ pc[p] = "create_save"
  /\ IF InsertAccepted(loc[p].copy)
     THEN payloads' = Append(payloads, loc[p].copy)
     ELSE UNCHANGED payloads
  /\ Finish(p)
  /\ UNCHANGED <<now, nonceRows, rowLock, nonceCache, returned, returnedTwice, thrown,
                 chainVars>>

\* A request ends: `result` is what the caller gets ("ok" or the exception).
Done(p, op, id, result) ==
  /\ pc' = [pc EXCEPT ![p] = "done"]
  /\ loc' = [loc EXCEPT ![p] = [IdleLoc EXCEPT !.op = op, !.id = id,
                                   !.result = result]]

\* The caller receives the result of a request that ended.
Return(p) ==
  /\ pc[p] = "done"
  /\ Finish(p)
  /\ UNCHANGED <<now, nonceRows, rowLock, nonceCache, payloads, chainVars,
                 returned, returnedTwice, thrown>>

\* validateNonce, lines 127-135: compare the nonce given with the one
\* getCurrentNonce returned.
validateNonce_Return(p, nonce) ==
  /\ pc[p] = "get_done"
  /\ loc[p].op = "validateNonce"
  /\ pc' = [pc EXCEPT ![p] = "done"]
  /\ loc' = [loc EXCEPT ![p] = [IdleLoc EXCEPT
       !.op = "validateNonce", !.signer = loc[p].signer, !.inst = loc[p].inst,
       !.nonce = nonce,
       !.result = IF nonce = loc[p].nonce THEN "true" ELSE "false"]]
  /\ UNCHANGED <<now, nonceRows, rowLock, nonceCache, payloads, chainVars,
                 returned, returnedTwice, thrown>>

\* repository.findOne({ where: { id } }): is there such a record.
Found(id) == id \in 1..Len(payloads)

\* Private keys callers present to signPayload, and the address of each.
PrivateKeys == {"key-0xAb", "key-0xCd", "invalid-key"}
\* new Wallet(privateKey) throws on a malformed key (oracle.service.ts:516).
WellFormed(key) == key # "invalid-key"
addressOf(key) == IF key = "key-0xAb" THEN "0xAb" ELSE "0xCd"

\* Mutant: a typed value that leaves out expiresAt.
createStructuredData_NoExpiry(payloadType, payloadHash, nonce, expiresAt, data) ==
  <<payloadType, payloadHash, nonce, JSONstringify(data)>>

\* createStructuredData (oracle.service.ts:470-494): the EIP-712 value.
createStructuredData(payloadType, payloadHash, nonce, expiresAt, data) ==
  <<payloadType, payloadHash, nonce, expiresAt, JSONstringify(data)>>

\* wallet.signTypedData (oracle.service.ts:529): a signature names the
\* signing address and the value signed (what recovery yields).
signTypedData(key, value) == <<"sig", addressOf(key), value>>

\* ethers verifyTypedData (oracle.service.ts:574): recovery gives the
\* signing address for the value that was signed and an address of nobody
\* for any other value.
SomeoneElse == "0xEe"
verifyTypedData(value, signature) ==
  IF signature[3] = value THEN signature[2] ELSE SomeoneElse

\* PayloadSigningService.verifySignature (oracle.service.ts:556-597).
verifySignature(signature, payloadType, payloadHash, nonce, expiresAt, data, expectedSigner) ==
  toLowerCase(verifyTypedData(
      createStructuredData(payloadType, payloadHash, nonce, expiresAt, data),
      signature)) = toLowerCase(expectedSigner)

\* The envelope a caller hands to the signing service, as a record.
Envelope(payloadType, payloadHash, nonce, expiresAt, data) ==
  [NoPayload EXCEPT !.payloadType = payloadType, !.payloadHash = payloadHash,
                    !.nonce = nonce, !.expiresAt = expiresAt, !.payload = data]

\* PayloadSigningService.signPayload (oracle.service.ts:506-540): the
\* signature and the checksummed signer address, or the error for a
\* malformed key.
SigningService_signPayload(p, privateKey, payloadType, payloadHash, nonce, expiresAt, data) ==
  /\ pc[p] = "idle"
  /\ IF ~WellFormed(privateKey)
     THEN Done(p, "signPayload", 0, "Error: Payload signing failed")
     ELSE /\ pc' = [pc EXCEPT ![p] = "signed"]
          /\ loc' = [loc EXCEPT ![p] = [IdleLoc EXCEPT
               !.op = "signPayload",
               !.signer = getAddress(addressOf(privateKey)),
               !.copy = [Envelope(payloadType, payloadHash, nonce, expiresAt,
                                  data)
                         EXCEPT !.signature =
                           signTypedData(privateKey,
                             createStructuredData(payloadType, payloadHash,
                                                  nonce, expiresAt, data))]]]
  /\ UNCHANGED <<now, nonceRows, rowLock, nonceCache, payloads, chainVars,
                 returned, returnedTwice, thrown>>

\* PayloadSigningService.verifySignature applied to the signature just made
\* and an envelope and expected signer of the caller's choice.
SigningService_verifySignature(p, payloadType, payloadHash, nonce, expiresAt, data, expectedSigner) ==
  /\ pc[p] = "signed"
  /\ pc' = [pc EXCEPT ![p] = "done"]
  /\ loc' = [loc EXCEPT ![p].op = "verifySignature",
                        ![p].result =
       IF verifySignature(loc[p].copy.signature, payloadType, payloadHash,
                          nonce, expiresAt, data, expectedSigner)
       THEN "true" ELSE "false"]
  /\ UNCHANGED <<now, nonceRows, rowLock, nonceCache, payloads, chainVars,
                 returned, returnedTwice, thrown>>

\* Mutant: signPayload without the comparison of the signer.
SignerMatches_Always(signerAddress, payload) == TRUE

\* signPayload, line 131: the signing address is the record's signer.
SignerMatches(signerAddress, payload) ==
  toLowerCase(signerAddress) = toLowerCase(payload.signerAddress)

\* signPayload, lines 103-135: findOne, the checks, the signing and the
\* signer comparison.
signPayload_Read(p, id, privateKey) ==
  /\ pc[p] = "idle"
  /\ IF ~Found(id)
     THEN Done(p, "signPayload", id, "NotFoundException")
     ELSE LET payload == payloads[id] IN
       IF payload.signature # NoSignature
       THEN Done(p, "signPayload", id, "BadRequestException: already signed")
       ELSE IF now > payload.expiresAt
       THEN Done(p, "signPayload", id, "BadRequestException: expired")
       ELSE IF ~WellFormed(privateKey)
       THEN Done(p, "signPayload", id, "Error: Payload signing failed")
       ELSE IF ~SignerMatches(addressOf(privateKey), payload)
       THEN Done(p, "signPayload", id, "BadRequestException: signer mismatch")
       ELSE /\ pc' = [pc EXCEPT ![p] = "sign_save"]
            /\ loc' = [loc EXCEPT ![p] = [IdleLoc EXCEPT
                 !.op = "signPayload", !.id = id,
                 !.copy = [payload EXCEPT !.signature =
                    signTypedData(privateKey,
                      createStructuredData(payload.payloadType,
                        payload.payloadHash, payload.nonce,
                        payload.expiresAt, payload.payload))]]]
  /\ UNCHANGED <<now, nonceRows, rowLock, nonceCache, payloads, chainVars,
                 returned, returnedTwice, thrown>>

\* signPayload, lines 137-143: save the entity with its signature.
signPayload_Save(p) ==
  /\ pc[p] = "sign_save"
  /\ payloads' = [payloads EXCEPT ![loc[p].id] = loc[p].copy]
  /\ Done(p, "signPayload", loc[p].id, "ok")
  /\ UNCHANGED <<now, nonceRows, rowLock, nonceCache, chainVars,
                 returned, returnedTwice, thrown>>

\* ---------------------------------------------------------- SubmitterService

\* Mutant: submitPayload also takes a FAILED record.
Submittable_AlsoFailed(status) == status \in {PENDING, FAILED}

\* submitPayload, line 107: the status a record must have to be submitted.
Submittable(status) == status = PENDING

\* The catch block of submitPayload (submitter.service.ts:171-181) applied
\* to the in-memory entity.
Caught(payload, message) ==
  [payload EXCEPT !.submissionAttempts = @ + 1,
                  !.errorMessage = message,
                  !.status = IF payload.submissionAttempts + 1 >= maxRetries
                             THEN FAILED ELSE @]

\* submitPayload, lines 99-123: findOne and the checks; an expired record
\* is marked FAILED in memory.
SubmitRead(p, id) ==
  IF ~Found(id)
  THEN Done(p, "submitPayload", id, "BadRequestException: not found")
  ELSE LET payload == payloads[id] IN
    IF ~Submittable(payload.status)
    THEN Done(p, "submitPayload", id, "BadRequestException: not PENDING")
    ELSE IF payload.signature = NoSignature
    THEN Done(p, "submitPayload", id, "BadRequestException: not signed")
    ELSE IF now > payload.expiresAt
    THEN /\ pc' = [pc EXCEPT ![p] = "submit_expired"]
         /\ loc' = [loc EXCEPT ![p] = [IdleLoc EXCEPT
              !.op = "submitPayload", !.id = id,
              !.copy = [payload EXCEPT !.status = FAILED,
                          !.errorMessage = "Payload expired before submission"]]]
    ELSE /\ pc' = [pc EXCEPT ![p] = "submit_send"]
         /\ loc' = [loc EXCEPT ![p] = [IdleLoc EXCEPT
              !.op = "submitPayload", !.id = id, !.copy = payload]]

\* A request calls submitPayload.
submitPayload_Read(p, id) ==
  /\ pc[p] = "idle"
  /\ SubmitRead(p, id)
  /\ UNCHANGED <<now, nonceRows, rowLock, nonceCache, payloads, chainVars,
                 returned, returnedTwice, thrown>>

\* retrySubmission, line 305: its call of submitPayload.
submitPayload_ReadAfterRetry(p) ==
  /\ pc[p] = "submit_start"
  /\ SubmitRead(p, loc[p].id)
  /\ UNCHANGED <<now, nonceRows, rowLock, nonceCache, payloads, chainVars,
                 returned, returnedTwice, thrown>>

\* submitPayload, lines 119-122: save the expired record and throw.
submitPayload_SaveExpired(p) ==
  /\ pc[p] = "submit_expired"
  /\ payloads' = [payloads EXCEPT ![loc[p].id] = loc[p].copy]
  /\ Done(p, "submitPayload", loc[p].id, "BadRequestException: expired")
  /\ UNCHANGED <<now, nonceRows, rowLock, nonceCache, chainVars,
                 returned, returnedTwice, thrown>>

\* Mutant: a send that takes a fresh nonce per attempt.
Transaction_FreshNonce(id, payload, acked) ==
  [ payloadId |-> id, payloadType |-> payload.payloadType,
    payloadHash |-> payload.payloadHash,
    nonce |-> payload.nonce + payload.submissionAttempts,
    expiresAt |-> payload.expiresAt, data |-> JSONstringify(payload.payload),
    signature |-> payload.signature, acked |-> acked ]

\* The transaction submitPayload sends (submitter.service.ts:137-147).
Transaction(id, payload, acked) ==
  [ payloadId |-> id, payloadType |-> payload.payloadType,
    payloadHash |-> payload.payloadHash, nonce |-> payload.nonce,
    expiresAt |-> payload.expiresAt, data |-> JSONstringify(payload.payload),
    signature |-> payload.signature, acked |-> acked ]

\* No monitorTransaction task runs for a transaction.
NoMonitor == [pc |-> "none", copy |-> NoPayload]

\* Mutant: a successful send that does not count as an attempt.
Sent_NotCounted(payload, tx, at) ==
  [payload EXCEPT !.transactionHash = tx, !.status = SUBMITTED,
                  !.submittedAt = at]

\* submitPayload, lines 150-153: the entity after a successful send.
Sent(payload, tx, at) ==
  [payload EXCEPT !.transactionHash = tx, !.status = SUBMITTED,
                  !.submittedAt = at, !.submissionAttempts = @ + 1]

\* submitPayload, lines 125-153 and 171-181: estimateGas (a failed
\* estimate falls back to a default) and the send.  The ledger returns the
\* hash ("hash"), rejects the transaction ("error"), or accepts it while
\* the call fails, e.g. by a timeout ("lost").
submitPayload_Send(p, outcome) ==
  /\ pc[p] = "submit_send"
  /\ LET id == loc[p].id
         payload == loc[p].copy
         tx == Len(ledger) + 1
     IN CASE outcome = "hash" ->
               /\ Len(ledger) < MaxTx
               /\ ledger' = Append(ledger, Transaction(id, payload, TRUE))
               /\ monitors' = Append(monitors, NoMonitor)
               /\ pc' = [pc EXCEPT ![p] = "submit_save"]
               /\ loc' = [loc EXCEPT ![p].copy = Sent(payload, tx, now)]
          [] outcome = "error" ->
               /\ pc' = [pc EXCEPT ![p] = "submit_catch"]
               /\ loc' = [loc EXCEPT ![p].copy = Caught(payload, "send failed")]
               /\ UNCHANGED <<ledger, monitors>>
          [] outcome = "lost" ->
               /\ Len(ledger) < MaxTx
               /\ ledger' = Append(ledger, Transaction(id, payload, FALSE))
               /\ monitors' = Append(monitors, NoMonitor)
               /\ pc' = [pc EXCEPT ![p] = "submit_catch"]
               /\ loc' = [loc EXCEPT ![p].copy = Caught(payload, "send failed")]
  /\ UNCHANGED <<now, nonceRows, rowLock, nonceCache, payloads, retried,
                 returned, returnedTwice, thrown>>

\* monitorTransaction as started by submitPayload (lines 160-165).
Spawned == [pc |-> "waiting", copy |-> NoPayload]

\* submitPayload, lines 154-170: save the SUBMITTED entity, start the
\* monitor in the background and return.  When the save throws, the catch
\* block runs on the entity as it is by then.
submitPayload_Save(p, saved) ==
  /\ pc[p] = "submit_save"
  /\ LET id == loc[p].id
         payload == loc[p].copy
     IN IF saved
        THEN /\ payloads' = [payloads EXCEPT ![id] = payload]
             /\ monitors' = [monitors EXCEPT ![payload.transactionHash] = Spawned]
             /\ Done(p, "submitPayload", id, "ok")
        ELSE /\ pc' = [pc EXCEPT ![p] = "submit_catch"]
             /\ loc' = [loc EXCEPT ![p].copy = Caught(payload, "save failed")]
             /\ UNCHANGED <<payloads, monitors>>
  /\ UNCHANGED <<now, nonceRows, rowLock, nonceCache, ledger, retried,
                 returned, returnedTwice, thrown>>

\* submitPayload, lines 183-184: save the entity with the error and rethrow.
submitPayload_SaveCaught(p) ==
  /\ pc[p] = "submit_catch"
  /\ payloads' = [payloads EXCEPT ![loc[p].id] = loc[p].copy]
  /\ Done(p, "submitPayload", loc[p].id, "Error")
  /\ UNCHANGED <<now, nonceRows, rowLock, nonceCache, chainVars,
                 returned, returnedTwice, thrown>>

\* Mutant: retrySubmission without the attempts check.
RetryRefused_Never(payload) == FALSE

\* retrySubmission, line 294: whether a retry is refused.
RetryRefused(payload) == payload.submissionAttempts >= maxRetries

\* retrySubmission, lines 286-302: findOne, the attempts check, reset the
\* entity to PENDING.
retrySubmission_Read(p, id) ==
  /\ pc[p] = "idle"
  /\ IF ~Found(id)
     THEN Done(p, "retrySubmission", id, "BadRequestException: not found")
     ELSE IF RetryRefused(payloads[id])
     THEN Done(p, "retrySubmission", id, "BadRequestException: max retries")
     ELSE /\ pc' = [pc EXCEPT ![p] = "retry_save"]
          /\ loc' = [loc EXCEPT ![p] = [IdleLoc EXCEPT
               !.op = "retrySubmission", !.id = id,
               !.copy = [payloads[id] EXCEPT !.status = PENDING,
                                            !.errorMessage = ""]]]
  /\ UNCHANGED <<now, nonceRows, rowLock, nonceCache, payloads, chainVars,
                 returned, returnedTwice, thrown>>

\* retrySubmission, lines 303-305: save, then call submitPayload.
retrySubmission_Save(p) ==
  /\ pc[p] = "retry_save"
  /\ payloads' = [payloads EXCEPT ![loc[p].id] = loc[p].copy]
  /\ retried' = retried \cup {loc[p].id}
  /\ pc' = [pc EXCEPT ![p] = "submit_start"]
  /\ loc' = [loc EXCEPT ![p] = [IdleLoc EXCEPT !.op = "retrySubmission",
                                   !.id = loc[p].id]]
  /\ UNCHANGED <<now, nonceRows, rowLock, nonceCache, ledger, monitors,
                 returned, returnedTwice, thrown>>

\* receipt.blockNumber of a mined transaction.
BlockOf(tx) == tx

\* Mutant: a monitor that takes every receipt for a success.
Monitored_AlwaysConfirms(payload, tx, outcome) ==
  [payload EXCEPT !.status = CONFIRMED, !.blockNumber = BlockOf(tx),
                  !.confirmedAt = now, !.errorMessage = ""]

\* monitorTransaction, lines 239-257 and 271-273: what the monitor makes of
\* the entity it loaded, by what waitForTransaction gave.
Monitored(payload, tx, outcome) ==
  CASE outcome = "success" ->
         [payload EXCEPT !.status = CONFIRMED, !.blockNumber = BlockOf(tx),
                         !.confirmedAt = now, !.errorMessage = ""]
    [] outcome = "reverted" ->
         [payload EXCEPT !.status = FAILED,
                         !.errorMessage = "Transaction reverted on-chain"]
    [] outcome = "error" ->
         [payload EXCEPT !.status = FAILED,
                         !.errorMessage = "Transaction monitoring failed"]

\* monitorTransaction, lines 221-257 and 260-273: waitForTransaction gives
\* a receipt with status 1 ("success") or 0 ("reverted"), or throws or
\* gives null ("error"); then findOne loads the record.
monitorTransaction_Load(tx, outcome) ==
  /\ tx \in 1..Len(monitors)
  /\ monitors[tx].pc = "waiting"
  /\ monitors' = [monitors EXCEPT ![tx] =
       [pc |-> "loaded",
        copy |-> Monitored(payloads[ledger[tx].payloadId], tx, outcome)]]
  /\ UNCHANGED <<now, nonceRows, rowLock, nonceCache, payloads, ledger, retried,
                 pc, loc, returned, returnedTwice, thrown>>

\* monitorTransaction, lines 259 and 274: save the entity.
monitorTransaction_Save(tx) ==
  /\ tx \in 1..Len(monitors)
  /\ monitors[tx].pc = "loaded"
  /\ payloads' = [payloads EXCEPT ![ledger[tx].payloadId] = monitors[tx].copy]
  /\ monitors' = [monitors EXCEPT ![tx] = [pc |-> "ended", copy |-> NoPayload]]
  /\ UNCHANGED <<now, nonceRows, rowLock, nonceCache, ledger, retried,
                 pc, loc, returned, returnedTwice, thrown>>

\* Mutant: a sweep that also takes the records expiring right now.
Expired_AtOrBefore(payload) == payload.expiresAt <= now

\* cleanupExpiredPayloads, lines 338-351: find the PENDING records, keep
\* the expired ones and mark them FAILED in memory.
Expired(payload) == payload.expiresAt < now

cleanupExpiredPayloads_Find(p) ==
  /\ pc[p] = "idle"
  /\ LET toUpdate == {id \in 1..Len(payloads) :
                        payloads[id].status = PENDING /\ Expired(payloads[id])}
     IN IF toUpdate = {}
        THEN Done(p, "cleanupExpiredPayloads", 0, "ok")
        ELSE /\ pc' = [pc EXCEPT ![p] = "cleanup_save"]
             /\ loc' = [loc EXCEPT ![p] = [IdleLoc EXCEPT
                  !.op = "cleanupExpiredPayloads",
                  !.batch = {<<id, [payloads[id] EXCEPT !.status = FAILED,
                                      !.errorMessage = "Payload expired"]>> :
                             id \in toUpdate}]]
  /\ UNCHANGED <<now, nonceRows, rowLock, nonceCache, payloads, chainVars,
                 returned, returnedTwice, thrown>>

\* cleanupExpiredPayloads, lines 353-358: save the marked entities.
cleanupExpiredPayloads_Save(p) ==
  /\ pc[p] = "cleanup_save"
  /\ payloads' = [id \in 1..Len(payloads) |->
                    IF \E e \in loc[p].batch : e[1] = id
                    THEN (CHOOSE e \in loc[p].batch : e[1] = id)[2]
                    ELSE payloads[id]]
  /\ Done(p, "cleanupExpiredPayloads", 0, "ok")
  /\ UNCHANGED <<now, nonceRows, rowLock, nonceCache, chainVars,
                 returned, returnedTwice, thrown>>

\* take: limit on ids ordered by createdAt ASC (the order of insertion).
Take(ids, limit) == {id \in ids : Cardinality({j \in ids : j < id}) < limit}

\* getPendingPayloads, line 236: the default of limit.
defaultLimit == 100

\* getPendingPayloads, lines 237-250: find the PENDING records whose
\* signature is in [null, ''] (SQL IN matches '' only), oldest first, at
\* most limit of them; keep those not expired that have a signature.
getPendingPayloads(p, limit) ==
  /\ pc[p] = "idle"
  /\ LET found == Take({id \in 1..Len(payloads) :
                          /\ payloads[id].status = PENDING
                          /\ payloads[id].signature = NoSignature}, limit)
         validPayloads == {id \in found :
                             /\ payloads[id].expiresAt > now
                             /\ payloads[id].signature # NoSignature}
     IN /\ pc' = [pc EXCEPT ![p] = "done"]
        /\ loc' = [loc EXCEPT ![p] = [IdleLoc EXCEPT
             !.op = "getPendingPayloads", !.result = "ok",
             !.batch = {<<id, payloads[id]>> : id \in validPayloads}]]
  /\ UNCHANGED <<now, nonceRows, rowLock, nonceCache, payloads, chainVars,
                 returned, returnedTwice, thrown>>

\* ------------------------------------------------------------------ clock
Tick(instants) ==
  /\ \E t \in instants : t > now /\ now' = t
  /\ UNCHANGED <<nonceRows, rowLock, nonceCache, payloads, chainVars, pc, loc,
                 returned, returnedTwice, thrown>>

\* ------------------------------------------------------- specifications
DaysInactiveInputs == {0, defaultDaysInactive}

\* The normal lifecycle of the allocator: no administrative operation.
NormalAddresses == {"0xAb", "0xab"}
NormalInstances == {"i1"}
NextNormal ==
  \/ \E p \in Procs, a \in NormalAddresses, i \in NormalInstances :
       getAndIncrementNonce_Find(p, a, i)
  \/ \E p \in Procs : getAndIncrementNonce_Save(p)
  \/ \E p \in Procs : getAndIncrementNonce_Return(p)
  \/ \E p \in Procs, a \in NormalAddresses, i \in NormalInstances :
       getCurrentNonce_Read(p, a, i)
  \/ \E p \in Procs : getCurrentNonce_Create(p)
  \/ \E p \in Procs : getCurrentNonce_Cache(p)
  \/ \E p \in Procs : getCurrentNonce_Return(p)
  \/ \E p \in Procs, a \in NormalAddresses, i \in NormalInstances,
        t \in PayloadTypes, b \in Bodies :
       createPayload_Allocate(p, a, i, t, b)
  \/ \E p \in Procs : createPayload_Save(p)
  \/ \E p \in Procs, d \in DaysInactiveInputs : cleanupOldNonces(p, d)
  \/ Tick(NonceInstants)

Spec == Init /\ [][NextNormal]_vars

\* All operations on the two tables, the administrative ones included.
AdminAddresses == {"0xAb", "0xab"}
AdminInstances == {"i1"}
AdminBodies == { <<<<"a", 1>>, <<"b", 2>>>>, <<<<"a", 1>>, <<"b", 3>>>> }
NextAdmin ==
  \/ \E p \in Procs : getAndIncrementNonce_Save(p)
  \/ \E p \in Procs : getAndIncrementNonce_Return(p)
  \/ \E p \in Procs, a \in AdminAddresses, i \in AdminInstances,
        t \in PayloadTypes, b \in AdminBodies :
       createPayload_Allocate(p, a, i, t, b)
  \/ \E p \in Procs : createPayload_Save(p)
  \/ \E p \in Procs, a \in AdminAddresses, i \in AdminInstances,
        n \in 1..MaxNonce :
       setNonce_Find(p, a, n, i)
  \/ \E p \in Procs, a \in AdminAddresses, i \in AdminInstances :
       resetNonce_Find(p, a, i)
  \/ \E p \in Procs : setNonce_Save(p)
  \/ \E p \in Procs : setNonce_Invalidate(p)
  \/ \E p \in Procs, d \in DaysInactiveInputs : cleanupOldNonces(p, d)
  \/ Tick(NonceInstants)

SpecAdmin == Init /\ [][NextAdmin]_vars

\* The state createPayload calls of one signer leave at time 0, one call
\* per body.
Created(bodies) ==
  /\ now = 0
  /\ nonceRows = [s \in Signers |->
                    IF s = "0xab" THEN NonceRow(Len(bodies), 0) ELSE NoRow]
  /\ rowLock = [s \in Signers |-> NoProc]
  /\ nonceCache = [i \in Instances |-> [s \in Signers |-> NoEntry]]
  /\ payloads = [i \in 1..Len(bodies) |->
                   NewPayload("price_feed", "0xab", i - 1, bodies[i], 0)]
  /\ pc = [p \in Procs |-> "idle"]
  /\ loc = [p \in Procs |-> IdleLoc]
  /\ returned = {<<"0xab", i - 1>> : i \in 1..Len(bodies)}
  /\ returnedTwice = {}
  /\ thrown = {}
  /\ ledger = <<>>
  /\ monitors = <<>>
  /\ retried = {}

\* The payload state machine of one record, requests one after the other,
\* the monitors in the background.
LifecycleBodies == << <<<<"a", 1>>, <<"b", 2>>>> >>
InitLifecycle == Created(LifecycleBodies)
\* Instants before, at and after the expiry of the record.
LifecycleInstants ==
  {0, defaultExpirationMinutes * SecondsPerMinute,
   defaultExpirationMinutes * SecondsPerMinute + 1}
UnknownId == 0
LifecycleIds == {UnknownId} \cup (1..Len(LifecycleBodies))
SendOutcomes == {"hash", "error", "lost"}
ReceiptOutcomes == {"success", "reverted", "error"}
Callers == {1}

NextLifecycle ==
  \/ \E p \in Callers, id \in LifecycleIds, k \in PrivateKeys :
       signPayload_Read(p, id, k)
  \/ \E p \in Callers : signPayload_Save(p)
  \/ \E p \in Callers, id \in LifecycleIds : submitPayload_Read(p, id)
  \/ \E p \in Callers : submitPayload_ReadAfterRetry(p)
  \/ \E p \in Callers : submitPayload_SaveExpired(p)
  \/ \E p \in Callers, o \in SendOutcomes : submitPayload_Send(p, o)
  \/ \E p \in Callers, saved \in BOOLEAN : submitPayload_Save(p, saved)
  \/ \E p \in Callers : submitPayload_SaveCaught(p)
  \/ \E p \in Callers, id \in LifecycleIds : retrySubmission_Read(p, id)
  \/ \E p \in Callers : retrySubmission_Save(p)
  \/ \E tx \in 1..MaxTx, o \in ReceiptOutcomes : monitorTransaction_Load(tx, o)
  \/ \E tx \in 1..MaxTx : monitorTransaction_Save(tx)
  \/ \E p \in Callers : cleanupExpiredPayloads_Find(p)
  \/ \E p \in Callers : cleanupExpiredPayloads_Save(p)
  \/ \E p \in Callers : Return(p)
  \/ Tick(LifecycleInstants)

SpecLifecycle == InitLifecycle /\ [][NextLifecycle]_vars

\* The monitors are scheduled fairly and the ledger reports on every
\* transaction a monitor waits for.
MonitorFairness ==
  \A tx \in 1..MaxTx :
    /\ WF_vars(\E o \in ReceiptOutcomes : monitorTransaction_Load(tx, o))
    /\ WF_vars(monitorTransaction_Save(tx))

\* A request that has started runs to its end.
Continue(p) ==
  \/ signPayload_Save(p)
  \/ submitPayload_ReadAfterRetry(p)
  \/ submitPayload_SaveExpired(p)
  \/ \E o \in SendOutcomes : submitPayload_Send(p, o)
  \/ \E saved \in BOOLEAN : submitPayload_Save(p, saved)
  \/ submitPayload_SaveCaught(p)
  \/ retrySubmission_Save(p)
  \/ cleanupExpiredPayloads_Save(p)
  \/ Return(p)

RequestFairness == \A p \in Callers : WF_vars(Continue(p))

SpecLifecycleFair ==
  InitLifecycle /\ [][NextLifecycle]_vars /\ MonitorFairness /\ RequestFairness

\* Concurrent requests for one record before it expires.
ConcurrentKeys == {"key-0xAb"}
ConcurrentIds == 1..Len(LifecycleBodies)
ConcurrentSends == {"hash"}
ConcurrentReceipts == {"success", "reverted"}

NextConcurrent ==
  \/ \E p \in Procs, id \in ConcurrentIds, k \in ConcurrentKeys :
       signPayload_Read(p, id, k)
  \/ \E p \in Procs : signPayload_Save(p)
  \/ \E p \in Procs, id \in ConcurrentIds : submitPayload_Read(p, id)
  \/ \E p \in Procs : submitPayload_ReadAfterRetry(p)
  \/ \E p \in Procs, o \in ConcurrentSends : submitPayload_Send(p, o)
  \/ \E p \in Procs : submitPayload_Save(p, TRUE)
  \/ \E p \in Procs, id \in ConcurrentIds : retrySubmission_Read(p, id)
  \/ \E p \in Procs : retrySubmission_Save(p)
  \/ \E tx \in 1..MaxTx, o \in ConcurrentReceipts :
       monitorTransaction_Load(tx, o)
  \/ \E tx \in 1..MaxTx : monitorTransaction_Save(tx)
  \/ \E p \in Procs : Return(p)

SpecConcurrent == InitLifecycle /\ [][NextConcurrent]_vars

\* The expiry sweep over records created at different instants, requests
\* one after the other.
SweepBodies == { <<<<"a", 1>>, <<"b", 2>>>>, <<<<"a", 1>>, <<"b", 3>>>> }
SweepInstants ==
  {0, 1, defaultExpirationMinutes * SecondsPerMinute,
   defaultExpirationMinutes * SecondsPerMinute + 1}
SweepIds == 1..Cardinality(SweepBodies)
ListLimits == {1, defaultLimit}

NextSweep ==
  \/ \E p \in Callers, t \in PayloadTypes, b \in SweepBodies :
       createPayload_Allocate(p, "0xAb", "i1", t, b)
  \/ \E p \in Callers : getAndIncrementNonce_Save(p)
  \/ \E p \in Callers : getAndIncrementNonce_Return(p)
  \/ \E p \in Callers : createPayload_Save(p)
  \/ \E p \in Callers, id \in SweepIds : signPayload_Read(p, id, "key-0xAb")
  \/ \E p \in Callers : signPayload_Save(p)
  \/ \E p \in Callers, id \in SweepIds : submitPayload_Read(p, id)
  \/ \E p \in Callers : submitPayload_SaveExpired(p)
  \/ \E p \in Callers : submitPayload_Send(p, "hash")
  \/ \E p \in Callers : submitPayload_Save(p, TRUE)
  \/ \E tx \in 1..MaxTx, o \in {"success", "reverted"} :
       monitorTransaction_Load(tx, o)
  \/ \E tx \in 1..MaxTx : monitorTransaction_Save(tx)
  \/ \E p \in Callers : cleanupExpiredPayloads_Find(p)
  \/ \E p \in Callers : cleanupExpiredPayloads_Save(p)
  \/ \E p \in Callers, limit \in ListLimits : getPendingPayloads(p, limit)
  \/ \E p \in Callers : Return(p)
  \/ Tick(SweepInstants)

SpecSweep == Init /\ [][NextSweep]_vars

\* validateNonce in two process instances next to allocations.
ValidateAddresses == {"0xAb"}
NextValidate ==
  \/ \E p \in Procs, a \in ValidateAddresses, i \in Instances :
       getAndIncrementNonce_Find(p, a, i)
  \/ \E p \in Procs : getAndIncrementNonce_Save(p)
  \/ \E p \in Procs : getAndIncrementNonce_Return(p)
  \/ \E p \in Procs, a \in ValidateAddresses, i \in Instances :
       validateNonce_Read(p, a, i)
  \/ \E p \in Procs : getCurrentNonce_Create(p)
  \/ \E p \in Procs : getCurrentNonce_Cache(p)
  \/ \E p \in Procs, n \in 0..MaxNonce : validateNonce_Return(p, n)
  \/ \E p \in Procs : Return(p)
  \/ Tick(NonceInstants)

SpecValidate == Init /\ [][NextValidate]_vars

\* The signing service on envelopes of the caller's choice.
EnvelopeTypes == {"price_feed", "compute_proof"}
EnvelopeHashes == {hashPayload(b) : b \in Bodies}
EnvelopeNonces == {0, 1}
EnvelopeExpiries ==
  {defaultExpirationMinutes * SecondsPerMinute,
   defaultExpirationMinutes * SecondsPerMinute + 1}

NextSigning ==
  \/ \E p \in Callers, k \in PrivateKeys, t \in EnvelopeTypes,
        h \in EnvelopeHashes, n \in EnvelopeNonces, e \in EnvelopeExpiries,
        b \in Bodies :
       SigningService_signPayload(p, k, t, h, n, e, b)
  \/ \E p \in Callers, t \in EnvelopeTypes, h \in EnvelopeHashes,
        n \in EnvelopeNonces, e \in EnvelopeExpiries, b \in Bodies,
        a \in AddressInputs :
       SigningService_verifySignature(p, t, h, n, e, b, a)
  \/ \E p \in Callers : Return(p)

SpecSigning == Init /\ [][NextSigning]_vars

\* The maintenance sweep next to allocations, reads and resets.
NextMaintenance ==
  \/ \E p \in Procs, a \in AdminAddresses, i \in AdminInstances :
       getAndIncrementNonce_Find(p, a, i)
  \/ \E p \in Procs : getAndIncrementNonce_Save(p)
  \/ \E p \in Procs : getAndIncrementNonce_Return(p)
  \/ \E p \in Procs, a \in AdminAddresses, i \in AdminInstances :
       getCurrentNonce_Read(p, a, i)
  \/ \E p \in Procs : getCurrentNonce_Create(p)
  \/ \E p \in Procs : getCurrentNonce_Cache(p)
  \/ \E p \in Procs : getCurrentNonce_Return(p)
  \/ \E p \in Procs, a \in AdminAddresses, i \in AdminInstances :
       resetNonce_Find(p, a, i)
  \/ \E p \in Procs : setNonce_Save(p)
  \/ \E p \in Procs : setNonce_Invalidate(p)
  \/ \E p \in Procs, d \in DaysInactiveInputs : cleanupOldNonces(p, d)
  \/ Tick(NonceInstants)

SpecMaintenance == Init /\ [][NextMaintenance]_vars

\* ------------------------------------------------------------------ claims
StoredNonce(s) == nonceRows[s].nonce
AllIdle == \A p \in Procs : pc[p] = "idle"
ReturnedFor(s) == {n \in 0..(MaxNonce + 1) : <<s, n>> \in returned}

\* C1: under any interleaving of getAndIncrementNonce calls (standalone or
\* within createPayload, from any request slot), no nonce is returned to
\* two calls for the same signer.
C1_NoDuplicateNonce == returnedTwice = {}

\* Two calls for one signer are past their commit at the same time.
C1_Witness ==
  \E p, q \in Procs :
    /\ p # q
    /\ pc[p] = "incr_committed" /\ pc[q] = "incr_committed"
    /\ loc[p].signer = loc[q].signer

\* C2 (as claimed): no getAndIncrementNonce call throws, and once all calls
\* have ended the nonces returned for a signer are exactly 0..stored-1.
C2_AllSucceedGapFree ==
  /\ thrown = {}
  /\ AllIdle => \A s \in Signers : ReturnedFor(s) = 0..(StoredNonce(s) - 1)

\* C3: the commit of getAndIncrementNonce finds the stored nonce n (0 when
\* there is no row) and leaves n+1; the call returns n; the record that
\* createPayload inserts carries n.
C3_ReturnsPreIncrement ==
  [][\A p \in Procs :
       LET s == loc[p].signer IN
       /\ (pc[p] = "incr_found" /\ pc'[p] = "incr_committed")
            => /\ loc[p].nonce = StoredNonce(s)
               /\ nonceRows'[s].exists
               /\ StoredNonce(s)' = StoredNonce(s) + 1
       /\ (pc[p] = "incr_committed" /\ pc'[p] # "incr_committed")
            => /\ returned' = returned \cup {<<s, loc[p].nonce>>}
               /\ loc[p].op = "createPayload"
                    => /\ pc'[p] = "create_save"
                       /\ loc'[p].copy.nonce = loc[p].nonce
                       /\ loc'[p].copy.signerAddress = s
       /\ (pc[p] = "create_save" /\ pc'[p] # "create_save"
             /\ Len(payloads') > Len(payloads))
            => /\ payloads'[Len(payloads')].nonce = loc[p].copy.nonce
               /\ payloads'[Len(payloads')].signerAddress = s
    ]_vars

\* Two createPayload calls succeeded for a signer: the second record
\* carries nonce 1 and the stored nonce is 2.
C3_Witness ==
  /\ Len(payloads) = 2
  /\ payloads[1].nonce = 0 /\ payloads[2].nonce = 1
  /\ payloads[1].signerAddress = payloads[2].signerAddress
  /\ StoredNonce(payloads[2].signerAddress) = 2

\* C4 (as claimed): no two Payload Records have the same (signerAddress,
\* nonce) pair.
C4_UniqueSignerNonce ==
  \A i, j \in 1..Len(payloads) :
    (i # j) => \/ payloads[i].signerAddress # payloads[j].signerAddress
               \/ payloads[i].nonce # payloads[j].nonce


\* The transactions on the ledger sent for a record.
SentFor(id) == {tx \in 1..Len(ledger) : ledger[tx].payloadId = id}

\* C5: in every reachable state every record with status SUBMITTED or
\* CONFIRMED has a non-empty signature, and every transaction handed to the
\* ledger carries a non-empty signature.
C5_SubmittedIsSigned ==
  /\ \A id \in 1..Len(payloads) :
       payloads[id].status \in {SUBMITTED, CONFIRMED}
         => payloads[id].signature # NoSignature
  /\ \A tx \in 1..Len(ledger) : ledger[tx].signature # NoSignature

\* C6: every step that makes a record's stored status CONFIRMED finds it
\* SUBMITTED.
C6_ConfirmedFromSubmitted ==
  [][\A id \in 1..Len(payloads) :
       (payloads[id].status # CONFIRMED /\ payloads'[id].status = CONFIRMED)
         => payloads[id].status = SUBMITTED]_vars

\* C7: once a record's stored status is CONFIRMED, no step changes it.
C7_ConfirmedIsTerminal ==
  [][\A id \in 1..Len(payloads) :
       payloads[id].status = CONFIRMED
         => payloads'[id].status = CONFIRMED]_vars

\* C8: a step that changes the stored status of a FAILED record is the save
\* of an accepted retrySubmission for that record.
C8_FailedLeftOnlyByRetry ==
  [][\A id \in 1..Len(payloads) :
       (payloads[id].status = FAILED /\ payloads'[id].status # FAILED)
         => \E p \in Procs : /\ pc[p] = "retry_save"
                             /\ loc[p].id = id
                             /\ pc'[p] = "submit_start"]_vars

\* C9: a submitPayload call that finds the record with a status other than
\* PENDING ends with the rejection, and that step sends no transaction and
\* leaves the record as it is; every transaction is sent by a call that
\* found the record PENDING.
C9_NonPendingRejected ==
  [][/\ \A p \in Procs, id \in 1..Len(payloads) :
          ( /\ pc[p] \in {"idle", "submit_start"}
            /\ pc'[p] \notin {"idle", "submit_start"}
            /\ loc'[p].op = "submitPayload"
            /\ loc'[p].id = id
            /\ payloads[id].status # PENDING )
          => /\ pc'[p] = "done"
             /\ loc'[p].result = "BadRequestException: not PENDING"
             /\ ledger' = ledger
             /\ payloads' = payloads
     /\ Len(ledger') > Len(ledger)
          => \E p \in Procs : /\ pc[p] = "submit_send"
                              /\ loc[p].copy.status = PENDING
                              /\ ledger'[Len(ledger')].payloadId = loc[p].id
    ]_vars

\* A submitPayload call was rejected for the status of a record for which a
\* transaction is on the ledger.
C9_Witness ==
  \E p \in Procs :
    /\ pc[p] = "done"
    /\ loc[p].op = "submitPayload"
    /\ loc[p].result = "BadRequestException: not PENDING"
    /\ payloads[loc[p].id].status # PENDING
    /\ SentFor(loc[p].id) # {}

\* C10: a record for which no retrySubmission was accepted has at most one
\* transaction on the ledger.
C10_AtMostOneSend ==
  \A id \in 1..Len(payloads) :
    id \notin retried => Cardinality(SentFor(id)) <= 1


\* C11: a retrySubmission call that finds the record with submissionAttempts
\* at or above maxRetries ends with the rejection, and that step sends no
\* transaction and leaves the record as it is; every retry that writes was
\* started on a record below maxRetries.
C11_ExhaustedRetryRejected ==
  [][/\ \A p \in Procs, id \in 1..Len(payloads) :
          ( /\ pc[p] = "idle"
            /\ pc'[p] # "idle"
            /\ loc'[p].op = "retrySubmission"
            /\ loc'[p].id = id
            /\ payloads[id].submissionAttempts >= maxRetries )
          => /\ pc'[p] = "done"
             /\ loc'[p].result = "BadRequestException: max retries"
             /\ ledger' = ledger
             /\ payloads' = payloads
     /\ \A p \in Procs :
          pc'[p] = "retry_save"
            => loc'[p].copy.submissionAttempts < maxRetries
    ]_vars

\* A retrySubmission call was rejected on a record that used up its attempts.
C11_Witness ==
  \E p \in Procs :
    /\ pc[p] = "done"
    /\ loc[p].op = "retrySubmission"
    /\ loc[p].result = "BadRequestException: max retries"
    /\ payloads[loc[p].id].submissionAttempts >= maxRetries


\* The fields of a record that createPayload sets for good.
CreatedFields(payload) ==
  <<payload.signerAddress, payload.nonce, payload.payload,
    payload.payloadHash, payload.structuredDataHash, payload.expiresAt>>

\* C12: no step of signPayload, submitPayload, retrySubmission,
\* monitorTransaction or cleanupExpiredPayloads changes a record's
\* signerAddress, nonce, payload, payloadHash, structuredDataHash or
\* expiresAt, nor any Sequence Record; and all transactions sent for a record
\* carry the record's nonce and payloadHash and one and the same signature.
C12_SendsIdenticalContent ==
  /\ [](\A tx \in 1..Len(ledger) :
          /\ ledger[tx].nonce = payloads[ledger[tx].payloadId].nonce
          /\ ledger[tx].payloadHash = payloads[ledger[tx].payloadId].payloadHash
          /\ \A other \in SentFor(ledger[tx].payloadId) :
               ledger[other].signature = ledger[tx].signature)
  /\ [][/\ nonceRows' = nonceRows
        /\ Len(payloads') = Len(payloads)
        /\ \A id \in 1..Len(payloads) :
             CreatedFields(payloads'[id]) = CreatedFields(payloads[id])]_vars

\* A retried record has two transactions on the ledger.
C12_Witness ==
  \E id \in retried : Cardinality(SentFor(id)) >= 2


\* C13: in every reachable state each record's submissionAttempts is at
\* most maxRetries.
C13_AttemptsBounded ==
  \A id \in 1..Len(payloads) : payloads[id].submissionAttempts <= maxRetries


\* C14: a signPayload call that finds the record signed or past expiresAt
\* ends with an error and that step leaves the record as it is; and no step
\* changes or clears a signature that is stored.
C14_SignatureImmutable ==
  [][/\ \A p \in Procs, id \in 1..Len(payloads) :
          ( /\ pc[p] = "idle"
            /\ pc'[p] # "idle"
            /\ loc'[p].op = "signPayload"
            /\ loc'[p].id = id
            /\ (payloads[id].signature # NoSignature
                  \/ now > payloads[id].expiresAt) )
          => /\ pc'[p] = "done"
             /\ loc'[p].result \in {"BadRequestException: already signed",
                                    "BadRequestException: expired"}
             /\ payloads' = payloads
     /\ \A id \in 1..Len(payloads) :
          payloads[id].signature # NoSignature
            => payloads'[id].signature = payloads[id].signature
    ]_vars


\* C15: a signPayload call with a malformed key, or with a key whose address
\* is not the record's signerAddress, ends with an error and that step
\* leaves the record as it is; no stored signature is one made by another
\* address than the record's signer.
C15_BadKeyRejected ==
  /\ [](\A id \in 1..Len(payloads) :
          payloads[id].signature # NoSignature
            => toLowerCase(payloads[id].signature[2])
                 = toLowerCase(payloads[id].signerAddress))
  /\ [][\A p \in Procs, id \in 1..Len(payloads), key \in PrivateKeys :
          ( /\ signPayload_Read(p, id, key)
            /\ \/ ~WellFormed(key)
               \/ toLowerCase(addressOf(key))
                    # toLowerCase(payloads[id].signerAddress) )
          => /\ pc'[p] = "done"
             /\ loc'[p].result # "ok"
             /\ payloads' = payloads]_vars

\* A signPayload call with the key of another address was rejected for it,
\* the record PENDING and unsigned.
C15_Witness ==
  \E p \in Procs :
    /\ pc[p] = "done"
    /\ loc[p].op = "signPayload"
    /\ loc[p].result = "BadRequestException: signer mismatch"
    /\ payloads[loc[p].id].status = PENDING
    /\ payloads[loc[p].id].signature = NoSignature


\* C16: when a createPayload call fails, no Payload Record is added and the
\* signer's stored nonce is left as the call found it: a failing allocation
\* writes nothing, and at a failing INSERT of the record the stored nonce is
\* the one the allocation found.
C16_FailedCreateNoEffect ==
  [][\A p \in Procs :
       ( /\ loc[p].op = "createPayload"
         /\ pc[p] \in {"incr_found", "create_save"}
         /\ pc'[p] = "idle"
         /\ Len(payloads') = Len(payloads) )
       => /\ payloads' = payloads
          /\ pc[p] = "incr_found" => nonceRows' = nonceRows
          /\ pc[p] = "create_save"
               => nonceRows'[loc[p].signer].nonce = loc[p].nonce]_vars


\* C17: in every reachable state no two Payload Records have the same
\* payloadHash, and the INSERT of a record whose payloadHash is stored
\* already adds no record.
C17_UniquePayloadHash ==
  /\ [](\A i, j \in 1..Len(payloads) :
          payloads[i].payloadHash = payloads[j].payloadHash => i = j)
  /\ [][\A p \in Procs :
          ( /\ pc[p] = "create_save"
            /\ pc'[p] = "idle"
            /\ HashTaken(loc[p].copy.payloadHash) )
          => payloads' = payloads]_vars

\* A createPayload call is about to INSERT a record with the payloadHash of
\* a stored record.
C17_Witness ==
  \E p \in Procs :
    /\ pc[p] = "create_save"
    /\ \E i \in 1..Len(payloads) :
         /\ payloads[i].payloadHash = loc[p].copy.payloadHash
         /\ payloads[i].nonce # loc[p].copy.nonce


\* The fields of a record that a receipt does not decide.
KeptByMonitor(payload) ==
  <<CreatedFields(payload), payload.payloadType, payload.signature,
    payload.transactionHash, payload.submissionAttempts, payload.submittedAt>>

C19_FailedWaitRetried ==
  [][/\ \A tx \in 1..Len(monitors) :
          ( /\ monitorTransaction_Load(tx, "error")
            /\ payloads[ledger[tx].payloadId].status = SUBMITTED )
          => /\ monitors'[tx].pc = "waiting"
             /\ payloads' = payloads
             /\ ledger' = ledger
     /\ \A tx \in 1..Len(monitors) :
          ( /\ monitors[tx].pc # "ended"
            /\ monitors'[tx].pc = "ended"
            /\ payloads[ledger[tx].payloadId].status = SUBMITTED )
          => payloads'[ledger[tx].payloadId].errorMessage
               # "Transaction monitoring failed"
    ]_vars


\* C20: with fair monitors and a ledger that reports on every transaction,
\* no record keeps the stored status SUBMITTED forever: a record that is
\* SUBMITTED has another stored status (CONFIRMED or FAILED, set by its
\* monitor) later on.
C20_SubmittedSettles ==
  \A id \in 1..Len(LifecycleBodies) :
    (payloads[id].status = SUBMITTED) ~> (payloads[id].status # SUBMITTED)


\* The records a sweep at this instant is to fail.
PendingPastExpiry ==
  {id \in 1..Len(payloads) :
     payloads[id].status = PENDING /\ payloads[id].expiresAt < now}

\* The ids of the entities a cleanupExpiredPayloads call holds.
BatchIds(p) == {e[1] : e \in loc[p].batch}

\* C21: cleanupExpiredPayloads takes exactly the records that are PENDING
\* with expiresAt in the past; its save makes each of them FAILED with the
\* error "Payload expired", changes no other field of them and no other
\* record; and right after it none of them is left for another sweep (a
\* sweep that finds nothing writes nothing).
C21_SweepExactAndIdempotent ==
  [][\A p \in Procs :
       /\ ( /\ pc[p] = "idle"
            /\ pc'[p] # "idle"
            /\ loc'[p].op = "cleanupExpiredPayloads" )
          => /\ payloads' = payloads
             /\ {e[1] : e \in loc'[p].batch} = PendingPastExpiry
             /\ PendingPastExpiry = {} => pc'[p] = "done"
       /\ ( pc[p] = "cleanup_save" /\ pc'[p] # "cleanup_save" )
          => /\ Len(payloads') = Len(payloads)
             /\ \A id \in 1..Len(payloads) :
                  IF id \in BatchIds(p)
                  THEN /\ payloads'[id].status = FAILED
                       /\ payloads'[id].errorMessage = "Payload expired"
                       /\ \E e \in loc[p].batch :
                            /\ e[1] = id
                            /\ payloads'[id] = e[2]
                            /\ KeptByMonitor(e[2]) = KeptByMonitor(payloads[id])
                       /\ ~(payloads'[id].status = PENDING
                              /\ payloads'[id].expiresAt < now)
                  ELSE payloads'[id] = payloads[id]
    ]_vars

\* A sweep has failed an expired PENDING record and left a PENDING record
\* that has not expired.
C21_Witness ==
  \E p \in Procs, i, j \in 1..Len(payloads) :
    /\ pc[p] = "done"
    /\ loc[p].op = "cleanupExpiredPayloads"
    /\ payloads[i].status = FAILED
    /\ payloads[i].errorMessage = "Payload expired"
    /\ payloads[j].status = PENDING
    /\ ~(payloads[j].expiresAt < now)


\* The errors that say a record has expired.
ExpiryErrors == {"Payload expired", "Payload expired before submission"}

\* C22: when a signPayload or submitPayload call ends with the rejection of
\* an expired record, the record's stored status is FAILED with an expiry
\* error.
C22_ExpiryRejectionSweeps ==
  [][\A p \in Procs :
       ( /\ pc[p] # "done"
         /\ pc'[p] = "done"
         /\ loc'[p].op \in {"signPayload", "submitPayload"}
         /\ loc'[p].result = "BadRequestException: expired" )
       => /\ payloads'[loc'[p].id].status = FAILED
          /\ payloads'[loc'[p].id].errorMessage \in ExpiryErrors]_vars


\* The records ready for submission: PENDING, signed, not expired.
Ready ==
  {id \in 1..Len(payloads) :
     /\ payloads[id].status = PENDING
     /\ payloads[id].signature # NoSignature
     /\ payloads[id].expiresAt > now}

\* C23: getPendingPayloads returns exactly the records that are PENDING,
\* signed and not expired, the oldest first up to the limit.
C23_ListsReadyRecords ==
  [][\A p \in Procs :
       ( /\ pc[p] = "idle"
         /\ pc'[p] = "done"
         /\ loc'[p].op = "getPendingPayloads" )
       => \E limit \in ListLimits :
            {e[1] : e \in loc'[p].batch} = Take(Ready, limit)]_vars


\* C24: no step of a getCurrentNonce call creates, changes or deletes a
\* Sequence Record, and no getCurrentNonce call ends with the failure of
\* its INSERT (a row committed meanwhile by another call).
C24_CurrentNonceReadOnly ==
  [][\A p \in Procs :
       ( /\ pc'[p] # pc[p]
         /\ \/ pc[p] \in {"get_create", "get_found", "get_done"}
            \/ pc[p] = "idle" /\ loc'[p].op = "getCurrentNonce" )
       => /\ nonceRows' = nonceRows
          /\ ~(pc[p] = "get_create" /\ pc'[p] = "idle")]_vars


\* C25: validateNonce answers true exactly when the nonce given is the
\* signer's nonce as stored at that moment.
C25_ValidateMatchesStore ==
  [][\A p \in Procs :
       ( /\ pc[p] = "get_done"
         /\ loc[p].op = "validateNonce"
         /\ pc'[p] = "done" )
       => ( loc'[p].result = "true"
              <=> loc'[p].nonce = nonceRows[loc[p].signer].nonce )]_vars


\* C26: verifySignature of a signature just made answers true exactly when
\* it is given the envelope that was signed, field by field, and the address
\* of the signing key (in any letter case).
C26_VerifyIffSameEnvelope ==
  [][\A p \in Procs, t \in EnvelopeTypes, h \in EnvelopeHashes,
        n \in EnvelopeNonces, e \in EnvelopeExpiries, b \in Bodies,
        a \in AddressInputs :
       SigningService_verifySignature(p, t, h, n, e, b, a)
         => ( loc'[p].result = "true"
                <=> /\ t = loc[p].copy.payloadType
                    /\ h = loc[p].copy.payloadHash
                    /\ n = loc[p].copy.nonce
                    /\ e = loc[p].copy.expiresAt
                    /\ b = loc[p].copy.payload
                    /\ getAddress(a) = loc[p].signer )]_vars

\* A signature was verified with its own envelope and signer.
C26_Witness ==
  \E p \in Procs :
    /\ pc[p] = "done"
    /\ loc[p].op = "verifySignature"
    /\ loc[p].result = "true"
    /\ loc[p].copy.signature # NoSignature


\* The key/value pairs a body holds, whatever their order.
Pairs(body) == {body[k] : k \in 1..Len(body)}

\* C27: the payloadHash that hashPayload gave two records is the same
\* exactly when their bodies hold the same key/value pairs: the same for
\* the same pairs in another key order, another when a value differs.
C27_HashIgnoresKeyOrder ==
  \A i, j \in 1..Len(payloads) :
    payloads[i].payloadHash = payloads[j].payloadHash
      <=> Pairs(payloads[i].payload) = Pairs(payloads[j].payload)


\* C28: in every reachable state a record's signature is non-empty exactly
\* when its status is SUBMITTED or CONFIRMED, or FAILED after a submission
\* attempt.
C28_SignedIffSubmitted ==
  \A id \in 1..Len(payloads) :
    payloads[id].signature # NoSignature
      <=> \/ payloads[id].status \in {SUBMITTED, CONFIRMED}
          \/ /\ payloads[id].status = FAILED
             /\ payloads[id].submissionAttempts > 0


\* C29: a signPayload, submitPayload or retrySubmission call given the id of
\* no record ends with the NotFound error, and that step changes nothing
\* that is stored.
C29_UnknownIdNotFound ==
  [][\A p \in Procs :
       ( /\ pc[p] = "idle"
         /\ pc'[p] # "idle"
         /\ loc'[p].op \in {"signPayload", "submitPayload", "retrySubmission"}
         /\ ~Found(loc'[p].id) )
       => /\ pc'[p] = "done"
          /\ loc'[p].result = "NotFoundException"
          /\ payloads' = payloads
          /\ nonceRows' = nonceRows
          /\ ledger' = ledger]_vars


C31_NonceNeverDecreases ==
  /\ \A s \in Signers : StoredNonce(s) = 0
  /\ [][\A s \in Signers : StoredNonce(s)' >= StoredNonce(s)]_vars

\* The stored nonce of a signer has grown to 2 while a getCurrentNonce call
\* that read an earlier value is still to write its cache entry.
C31_Witness ==
  \E p \in Procs :
    /\ pc[p] = "get_found"
    /\ StoredNonce(loc[p].signer) = 2
    /\ loc[p].nonce < 2

\* C32 (as claimed): when the send of a submitPayload call fails although
\* the ledger accepted the transaction, the entity the call then saves has
\* status SUBMITTED (not PENDING), and that entity is what the call stores.
C32_LostSendLeavesSubmitted ==
  [][\A p \in Procs :
       /\ ( pc[p] = "submit_send" /\ pc'[p] = "submit_catch"
            /\ Len(ledger') > Len(ledger) )
          => loc'[p].copy.status = SUBMITTED
       /\ ( pc[p] = "submit_catch" /\ pc'[p] = "done" )
          => payloads'[loc[p].id] = loc[p].copy]_vars

\* C33 (as claimed): a getCurrentNonce call that starts after a
\* getAndIncrementNonce call for the signer has returned in the same process
\* instance gets at least the post-increment value of that call.
C33_NoStaleReadAfterAllocation ==
  [][\A p \in Procs :
       ( /\ pc[p] = "idle"
         /\ pc'[p] \in {"get_done", "get_found", "get_create"}
         /\ loc'[p].op = "getCurrentNonce" )
       => \A n \in 0..MaxNonce :
            <<loc'[p].signer, n>> \in returned => loc'[p].nonce >= n + 1]_vars

\* C34 (as claimed): retrySubmission called on a record whose status is
\* PENDING, SUBMITTED or CONFIRMED ends at once with an error, and that step
\* changes neither the records nor the ledger.
C34_RetryOnlyFailed ==
  [][\A p \in Procs :
       ( /\ pc[p] = "idle"
         /\ pc'[p] # "idle"
         /\ loc'[p].op = "retrySubmission"
         /\ Found(loc'[p].id)
         /\ payloads[loc'[p].id].status \in {PENDING, SUBMITTED, CONFIRMED} )
       => /\ pc'[p] = "done"
          /\ loc'[p].result # "ok"
          /\ payloads' = payloads
          /\ ledger' = ledger]_vars

\* C35 (as claimed): when monitorTransaction saves the outcome of a receipt
\* (CONFIRMED, or FAILED for a revert), the receipt is that of the
\* transaction the stored record names in transactionHash.
C35_ReceiptOfCurrentTransaction ==
  [][\A tx \in 1..Len(monitors) :
       ( /\ monitors[tx].pc = "loaded"
         /\ monitors'[tx].pc = "ended"
         /\ \/ monitors[tx].copy.status = CONFIRMED
            \/ monitors[tx].copy.errorMessage = "Transaction reverted on-chain" )
       => payloads[ledger[tx].payloadId].transactionHash = tx]_vars

\* C36 (as claimed): when a submitPayload call ends, a transaction of the
\* record that the ledger acknowledged and that had no monitor yet is
\* stored on the record (status SUBMITTED, transactionHash the transaction)
\* and has a monitor task.
C36_AcceptedTransactionRecorded ==
  [][\A p \in Procs :
       ( /\ pc[p] \in {"submit_save", "submit_catch"}
         /\ pc'[p] = "done" )
       => \A tx \in 1..Len(ledger) :
            ( /\ ledger[tx].payloadId = loc[p].id
              /\ ledger[tx].acked
              /\ loc[p].copy.transactionHash = tx
              /\ monitors[tx].pc = "none" )
            => /\ payloads'[loc[p].id].status = SUBMITTED
               /\ payloads'[loc[p].id].transactionHash = tx
               /\ monitors'[tx].pc # "none"]_vars

\* C37 (as claimed): when the catch block of submitPayload brings
\* submissionAttempts to maxRetries, the record it stores is FAILED and its
\* errorMessage is the max-retries-exceeded error, not the message of the
\* error that was caught.
C37_ExhaustedHasDistinctError ==
  [][\A p \in Procs :
       ( /\ pc[p] = "submit_catch"
         /\ pc'[p] = "done"
         /\ loc[p].copy.submissionAttempts >= maxRetries
         /\ payloads[loc[p].id].submissionAttempts < maxRetries )
       => /\ payloads'[loc[p].id].status = FAILED
          /\ payloads'[loc[p].id].errorMessage = "max retries exceeded"]_vars

\* The records createPayload has built: those stored and those it is about
\* to insert.
Built ==
  {payloads[i] : i \in 1..Len(payloads)}
    \cup {loc[p].copy : p \in {q \in Procs : pc[q] = "create_save"}}

\* C38 (as claimed): two records createPayload built with the same
\* payloadHash but another nonce, expiry or payloadType have different
\* structuredDataHash values, and no record's structuredDataHash is its
\* payloadHash.
C38_StructuredHashCoversEnvelope ==
  /\ \A r1, r2 \in Built :
       ( /\ r1.payloadHash = r2.payloadHash
         /\ \/ r1.nonce # r2.nonce
            \/ r1.expiresAt # r2.expiresAt
            \/ r1.payloadType # r2.payloadType )
       => r1.structuredDataHash # r2.structuredDataHash
  /\ \A r \in Built : r.structuredDataHash # r.payloadHash

\* C39: in every state of the normal lifecycle (no setNonce/resetNonce),
\* the nonce of every Payload Record is less than the stored nonce of its
\* signer.
C39_RecordNonceBelowStored ==
  \A i \in 1..Len(payloads) :
    payloads[i].nonce < StoredNonce(payloads[i].signerAddress)

\* Two records of one signer are stored, the later with the largest nonce
\* handed out, and the maintenance sweep can run.
C39_Witness ==
  /\ Len(payloads) = 2
  /\ payloads[1].signerAddress = payloads[2].signerAddress
  /\ payloads[2].nonce = StoredNonce(payloads[2].signerAddress) - 1
  /\ now = CACHE_TTL
  /\ AllIdle

====
